---------------------------- MODULE Spec2Model ----------------------------
(***************************************************************************)
(* Legal-document RTF recovery: advanced_rtf_processor.py and              *)
(* extract_rtf_content.py.                                                 *)
(*                                                                         *)
(* A Python str is modelled as a sequence of one-character strings, so     *)
(* that every re.sub / str.replace / split / strip of the source is        *)
(* computed character by character.  The rupee sign U+20B9 is the single   *)
(* character RUPEE.                                                        *)
(***************************************************************************)
EXTENDS Integers, Sequences, FiniteSets, TLC

VARIABLES
    pc,           \* position of the pipeline / batch driver
    rtf_content,  \* the raw input string read from the file
    content,      \* result of clean_rtf_content / extract_rtf_text
    paragraphs,   \* result of structure_legal_document (list of strings)
    html_paras,   \* contents of the <p> elements of the generated HTML
    driver,       \* which main() is running: "advanced" or "extract"
    idx,          \* 1-based index into files_to_process
    fs,           \* per-file write outcome fixed by the environment
    rd,           \* per-file read outcome fixed by the environment
    written,      \* per-file: TRUE once the html file has been written
    reported,     \* per-file: TRUE once an error was printed for the file
    crashed       \* TRUE once an uncaught exception has left main()

vars == <<pc, rtf_content, content, paragraphs, html_paras,
          driver, idx, fs, rd, written, reported, crashed>>

-----------------------------------------------------------------------------
(* Characters and character classes of Python's re module *)

RUPEE == "U+20B9"

Digit == {"0", "1", "2", "3", "4", "5", "6", "7", "8", "9"}

Lower == {"a", "b", "c", "d", "e", "f", "g", "h", "i", "j", "k", "l", "m",
          "n", "o", "p", "q", "r", "s", "t", "u", "v", "w", "x", "y", "z"}

Upper == {"A", "B", "C", "D", "E", "F", "G", "H", "I", "J", "K", "L", "M",
          "N", "O", "P", "Q", "R", "S", "T", "U", "V", "W", "X", "Y", "Z"}

Alpha == Lower \cup Upper

\* \s, and the characters str.strip() / str.split() treat as white space
Space == {" ", "\n", "\t", "\r"}

\* a character class: the set, or (neg) its complement
In(S) == [neg |-> FALSE, set |-> S]
NotIn(S) == [neg |-> TRUE, set |-> S]
InClass(c, cls) == (c \in cls.set) # cls.neg

\* pattern items: a literal, a greedy repetition {min,} of a class, a lazy
\* repetition *? of a class, a negative lookahead (?!lit), the anchor ^
Lit(s) == [t |-> "lit", s |-> s]
Rep(cls, min) == [t |-> "rep", c |-> cls, min |-> min]
Lazy(cls) == [t |-> "lazy", c |-> cls]
NotAhead(s) == [t |-> "nla", s |-> s]
Bos == [t |-> "bos"]

\* s has the literal lit at position i
HasAt(s, i, lit) ==
    /\ i + Len(lit) - 1 <= Len(s)
    /\ \A k \in 1..Len(lit) : s[i + k - 1] = lit[k]

\* first position >= i whose character is outside cls (Len(s)+1 if none)
SpanEnd(s, i, cls) ==
    CHOOSE k \in i..(Len(s) + 1) :
        /\ k > Len(s) \/ ~InClass(s[k], cls)
        /\ \A j \in i..(k - 1) : InClass(s[j], cls)

\* re's matcher for the patterns of the source: position after the match of
\* pat[p..] at i, or 0 when there is none.  Greedy repetitions never have to
\* give characters back in these patterns (what follows a repetition starts
\* with a character outside its class), so greedy = longest span.
RECURSIVE MatchFrom(_, _, _, _)

\* a lazy repetition at pat[p] that may take the characters i..m-1: the
\* match of the rest from the first position where the rest matches
LazyFrom(s, i, m, pat, p) ==
    IF \E q \in i..m : MatchFrom(s, q, pat, p + 1) # 0
    THEN MatchFrom(s, CHOOSE q \in i..m :
                          /\ MatchFrom(s, q, pat, p + 1) # 0
                          /\ \A h \in i..(q - 1) : MatchFrom(s, h, pat, p + 1) = 0,
                   pat, p + 1)
    ELSE 0

MatchFrom(s, i, pat, p) ==
    IF p > Len(pat) THEN i
    ELSE LET it == pat[p] IN
         CASE it.t = "lit" ->
                IF HasAt(s, i, it.s)
                THEN MatchFrom(s, i + Len(it.s), pat, p + 1) ELSE 0
           [] it.t = "rep" ->
                LET j == SpanEnd(s, i, it.c) IN
                IF j - i >= it.min THEN MatchFrom(s, j, pat, p + 1) ELSE 0
           [] it.t = "lazy" ->
                LazyFrom(s, i, SpanEnd(s, i, it.c), pat, p)
           [] it.t = "nla" ->
                IF HasAt(s, i, it.s) THEN 0 ELSE MatchFrom(s, i, pat, p + 1)
           [] it.t = "bos" ->
                IF i = 1 THEN MatchFrom(s, i, pat, p + 1) ELSE 0

\* first position >= i where pat matches (Len(s)+1 if none); no pattern of
\* the source matches the empty string
FirstMatch(s, i, pat) ==
    CHOOSE k \in i..(Len(s) + 1) :
        /\ k > Len(s) \/ MatchFrom(s, k, pat, 1) > k
        /\ \A j \in i..(k - 1) : ~(MatchFrom(s, j, pat, 1) > j)

\* re.sub(pat, repl, s) from position i on: leftmost non-overlapping matches
RECURSIVE ReSubFrom(_, _, _, _)

\* k is the first match at or after i
ReSubAt(s, i, k, pat, repl) ==
    IF k > Len(s) THEN SubSeq(s, i, Len(s))
    ELSE SubSeq(s, i, k - 1) \o repl
           \o ReSubFrom(s, MatchFrom(s, k, pat, 1), pat, repl)

ReSubFrom(s, i, pat, repl) == ReSubAt(s, i, FirstMatch(s, i, pat), pat, repl)

ReSub(pat, repl, s) == IF Len(s) = 0 THEN s ELSE ReSubFrom(s, 1, pat, repl)

\* str.replace(old, new)
Replace(s, old, new) == ReSub(<<Lit(old)>>, new, s)

\* str.strip()
Strip(s) ==
    IF Len(s) = 0 THEN s ELSE
    LET a == SpanEnd(s, 1, In(Space))
        b == CHOOSE k \in 0..Len(s) :
                 /\ k = 0 \/ s[k] \notin Space
                 /\ \A j \in (k + 1)..Len(s) : s[j] \in Space
    IN  SubSeq(s, a, b)

\* str.split(sep) for a one-character separator: always at least one piece
RECURSIVE SplitFrom(_, _, _)
SplitFrom(s, i, sep) ==
    LET k == SpanEnd(s, i, NotIn({sep})) IN
    IF k > Len(s) THEN <<SubSeq(s, i, Len(s))>>
    ELSE <<SubSeq(s, i, k - 1)>> \o SplitFrom(s, k + 1, sep)

Split(s, sep) == IF Len(s) = 0 THEN << <<>> >> ELSE SplitFrom(s, 1, sep)

\* sep.join(parts)
RECURSIVE Join(_, _)
Join(parts, sep) ==
    IF Len(parts) = 0 THEN <<>>
    ELSE IF Len(parts) = 1 THEN parts[1]
    ELSE parts[1] \o sep \o Join(Tail(parts), sep)

\* str.split() with no argument: the maximal runs of non-space characters
RECURSIVE WordsFrom(_, _)
WordsFrom(s, i) ==
    LET a == SpanEnd(s, i, In(Space))
        b == SpanEnd(s, a, NotIn(Space))
    IN  IF a > Len(s) THEN <<>> ELSE <<SubSeq(s, a, b - 1)>> \o WordsFrom(s, b)

Words(s) == IF Len(s) = 0 THEN <<>> ELSE WordsFrom(s, 1)

StartsWith(s, prefix) == HasAt(s, 1, prefix)

-----------------------------------------------------------------------------
(* advanced_rtf_processor.clean_rtf_content *)

PARA_BREAK == <<"P", "A", "R", "A", "_", "B", "R", "E", "A", "K">>
BOLD_START == <<"B", "O", "L", "D", "_", "S", "T", "A", "R", "T">>
BOLD_END == <<"B", "O", "L", "D", "_", "E", "N", "D">>
ITALIC_START == <<"I", "T", "A", "L", "I", "C", "_", "S", "T", "A", "R", "T">>
ITALIC_END == <<"I", "T", "A", "L", "I", "C", "_", "E", "N", "D">>
STRONG_OPEN == <<"<", "s", "t", "r", "o", "n", "g", ">">>
STRONG_CLOSE == <<"<", "/", "s", "t", "r", "o", "n", "g", ">">>
EM_OPEN == <<"<", "e", "m", ">">>
EM_CLOSE == <<"<", "/", "e", "m", ">">>

\* len(line) < 3 drops the line
MinLineLen == 3

D1 == Rep(In(Digit), 1)

\* Step 1: RTF header and setup (lines 15-20)
CleanStep1(c0) ==
    LET c1 == ReSub(<<Lit(<<"\\", "r", "t", "f", "1">>), Rep(NotIn({"}"}), 0)>>, <<>>, c0)
        c2 == ReSub(<<Lit(<<"\\", "c", "o", "c", "o", "a", "r", "t", "f">>), D1>>, <<>>, c1)
        c3 == ReSub(<<Lit(<<"\\", "c", "o", "c", "o", "a", "t", "e", "x", "t", "s", "c", "a", "l", "i", "n", "g">>), D1, Lit(<<"\\", "c", "o", "c", "o", "a", "p", "l", "a", "t", "f", "o", "r", "m">>), D1>>,
                    <<>>, c2)
        c4 == ReSub(<<Lit(<<"{", "\\", "f", "o", "n", "t", "t", "b", "l">>), Rep(NotIn({"}"}), 0), Rep(In({"}"}), 1)>>,
                    <<>>, c3)
        c5 == ReSub(<<Lit(<<"{", "\\", "c", "o", "l", "o", "r", "t", "b", "l">>), Rep(NotIn({"}"}), 0), Rep(In({"}"}), 1)>>,
                    <<>>, c4)
        c6 == ReSub(<<Lit(<<"{", "\\">>), Lazy(NotIn({"\n"})), Lit(<<"e", "x", "p", "a", "n", "d", "e", "d", "c", "o", "l", "o", "r", "t", "b", "l">>),
                      Rep(NotIn({"}"}), 0), Rep(In({"}"}), 1)>>, <<>>, c5)
    IN  c6

\* Step 2: page layout and paragraph controls (lines 23-24)
CleanStep2(c0) ==
    LET c1 == ReSub(<<Lit(<<"\\", "p", "a", "p", "e", "r", "w">>), D1, Lit(<<"\\", "p", "a", "p", "e", "r", "h">>), D1, Lit(<<"\\", "m", "a", "r", "g", "l">>), D1,
                      Lit(<<"\\", "m", "a", "r", "g", "r">>), D1, Lit(<<"\\", "v", "i", "e", "w", "w">>), D1, Lit(<<"\\", "v", "i", "e", "w", "h">>), D1,
                      Lit(<<"\\", "v", "i", "e", "w", "k", "i", "n", "d">>), D1>>, <<>>, c0)
        c2 == ReSub(<<Lit(<<"\\", "d", "e", "f", "t", "a", "b">>), D1>>, <<>>, c1)
    IN  c2

\* Step 3: paragraph markers (lines 27-28).  In \\pardeftab\w*\d*[^\\]* both
\* \w and \d lie inside [^\\], so the match runs to the next backslash.
CleanStep3(c0) ==
    LET c1 == ReSub(<<Lit(<<"\\", "p", "a", "r", "d">>), Rep(NotIn({"\\"}), 0)>>,
                    <<"\n", "\n", "P", "A", "R", "A", "_", "B", "R", "E", "A", "K", "\n">>, c0)
        c2 == ReSub(<<Lit(<<"\\", "p", "a", "r", "d", "e", "f", "t", "a", "b">>), Rep(NotIn({"\\"}), 0)>>, <<>>, c1)
    IN  c2

\* Step 4: font and formatting (lines 31-35)
CleanStep4(c0) ==
    LET c1 == ReSub(<<Lit(<<"\\", "f", "0", "\\", "b", "\\", "f", "s">>), D1>>, BOLD_START, c0)
        c2 == ReSub(<<Lit(<<"\\", "f", "0", "\\", "b">>), NotAhead(<<"\\">>)>>, BOLD_START, c1)
        c3 == ReSub(<<Lit(<<"\\", "f", "1", "\\", "b", "0">>)>>, BOLD_END, c2)
        c4 == ReSub(<<Lit(<<"\\", "f", "2", "\\", "i">>)>>, ITALIC_START, c3)
        c5 == ReSub(<<Lit(<<"\\", "f", "1", "\\", "i", "0">>)>>, ITALIC_END, c4)
    IN  c5

\* Step 5: other formatting codes (lines 38-43)
CleanStep5(c0) ==
    LET c1 == ReSub(<<Lit(<<"\\", "f">>), D1>>, <<>>, c0)
        c2 == ReSub(<<Lit(<<"\\", "f", "s">>), D1>>, <<>>, c1)
        c3 == ReSub(<<Lit(<<"\\", "c", "f">>), D1>>, <<>>, c2)
        c4 == ReSub(<<Lit(<<"\\", "s", "t", "r", "o", "k", "e", "c">>), D1>>, <<>>, c3)
        c5 == ReSub(<<Lit(<<"\\", "e", "x", "p", "n", "d">>), D1, Lit(<<"\\", "e", "x", "p", "n", "d", "t", "w">>), D1, Lit(<<"\\", "k", "e", "r", "n", "i", "n", "g">>), D1>>,
                    <<>>, c4)
        c6 == ReSub(<<Lit(<<"\\", "o", "u", "t", "l">>), D1, Lit(<<"\\", "s", "t", "r", "o", "k", "e", "w", "i", "d", "t", "h">>), D1>>, <<>>, c5)
    IN  c6

\* Step 6: special characters (lines 46-47)
CleanStep6(c0) ==
    Replace(Replace(c0, <<"\\", "u", "c", "0", "\\", "u", "8", "3", "7", "7">>, <<RUPEE>>), <<"\\", "u", "c", "0", "\\", "u", "8", "2", "3", "2">>, <<"\n">>)

\* Step 7: residual commands, braces, backslashes (lines 50-52)
CleanStep7(c0) ==
    LET c1 == ReSub(<<Lit(<<"\\">>), Rep(In(Alpha), 1), Rep(In(Digit), 0),
                      Rep(In(Space), 0)>>, <<" ">>, c0)
        c2 == Replace(Replace(c1, <<"{">>, <<>>), <<"}">>, <<>>)
    IN  Replace(c2, <<"\\">>, <<"\n">>)

\* Step 8, body of the loop for one line (lines 57-76): the lines it appends
CleanLine(raw) ==
    LET line == Strip(raw) IN
    IF Len(line) = 0 \/ StartsWith(line, PARA_BREAK) \/ Len(line) < MinLineLen
    THEN IF StartsWith(line, PARA_BREAK) THEN << <<>> >> ELSE <<>>
    ELSE LET l1 == Replace(line, BOLD_START, STRONG_OPEN)
             l2 == Replace(l1, BOLD_END, STRONG_CLOSE)
             l3 == Replace(l2, ITALIC_START, EM_OPEN)
             l4 == Replace(l3, ITALIC_END, EM_CLOSE)
             l5 == ReSub(<<Rep(In(Space), 1)>>, <<" ">>, l4)
             l6 == ReSub(<<Bos, Rep(In(Space \cup {"*"}), 1)>>, <<>>, l5)
         IN  IF Len(l6) > 0 THEN <<l6>> ELSE <<>>

RECURSIVE CleanLines(_)
CleanLines(raws) ==
    IF Len(raws) = 0 THEN <<>>
    ELSE CleanLine(Head(raws)) \o CleanLines(Tail(raws))

clean_rtf_content(c0) ==
    LET c7 == CleanStep7(CleanStep6(CleanStep5(CleanStep4(
                  CleanStep3(CleanStep2(CleanStep1(c0)))))))
    IN  Join(CleanLines(Split(c7, "\n")), <<"\n">>)

-----------------------------------------------------------------------------
(* advanced_rtf_processor.structure_legal_document *)

\* lines 85-105: the assembly loop; paras is `paragraphs`, cur `current_para`
RECURSIVE AssembleFrom(_, _, _)
AssembleFrom(lines, paras, cur) ==
    IF Len(lines) = 0
    THEN IF Len(cur) > 0 THEN Append(paras, Strip(cur)) ELSE paras
    ELSE LET line == Strip(Head(lines)) IN
         IF Len(line) = 0
         THEN IF Len(cur) > 0
              THEN AssembleFrom(Tail(lines), Append(paras, Strip(cur)), <<>>)
              ELSE AssembleFrom(Tail(lines), paras, cur)
         ELSE AssembleFrom(Tail(lines), paras,
                           IF Len(cur) > 0 THEN cur \o <<" ">> \o line ELSE line)

\* the assembly loop with the flush at an empty line lost (lines 91-95): the
\* empty lines are passed over and every line joins one paragraph
AssembleUnbroken(c) ==
    AssembleFrom(SelectSeq(Split(c, "\n"), LAMBDA l : Len(Strip(l)) > 0),
                 <<>>, <<>>)

AssembleParagraphs(c) == AssembleFrom(Split(c, "\n"), <<>>, <<>>)

\* ':' in para
Contains(s, ch) == \E k \in 1..Len(s) : s[k] = ch

\* para.split(' ', 1)
SplitFirstSpace(s) ==
    LET k == SpanEnd(s, 1, NotIn({" "})) IN
    IF k > Len(s) THEN <<s>>
    ELSE <<SubSeq(s, 1, k - 1), SubSeq(s, k + 1, Len(s))>>

\* lines 116-117: WHEREAS, AND WHEREAS, NOW THEREFORE
FormatRecital(p) ==
    IF \/ StartsWith(p, <<"W", "H", "E", "R", "E", "A", "S">>)
       \/ StartsWith(p, <<"A", "N", "D", " ", "W", "H", "E", "R", "E", "A", "S">>)
       \/ StartsWith(p, <<"N", "O", "W", " ", "T", "H", "E", "R", "E", "F", "O", "R", "E">>)
    THEN STRONG_OPEN \o Head(Words(p)) \o STRONG_CLOSE \o <<" ">>
           \o Join(Tail(Words(p)), <<" ">>)
    ELSE p

\* lines 120-121: article headers
FormatArticle(p) ==
    IF StartsWith(p, <<"A", "R", "T", "I", "C", "L", "E">>) /\ Contains(p, ":")
    THEN STRONG_OPEN \o p \o STRONG_CLOSE
    ELSE p

\* lines 125-127, parts = para.split(' ', 1)
FormatSectionParts(p, parts) ==
    IF Len(parts) > 1
    THEN STRONG_OPEN \o parts[1] \o <<" ">> \o Head(Words(parts[2]))
           \o STRONG_CLOSE \o <<" ">> \o Join(Tail(Words(parts[2])), <<" ">>)
    ELSE p

\* lines 124-127: numbered sections, re.match(r'^\d+\.\d+', para)
FormatSection(p) ==
    IF MatchFrom(p, 1, <<D1, Lit(<<".">>), D1>>, 1) # 0
    THEN FormatSectionParts(p, SplitFirstSpace(p))
    ELSE p

\* lines 113-127: the legal formatting patterns applied to one paragraph
FormatPara(p0) ==
    FormatSection(FormatArticle(FormatRecital(
        ReSub(<<Rep(In(Space), 1)>>, <<" ">>, p0))))

\* lines 108-131: html_parts
RECURSIVE HtmlParts(_)
HtmlParts(paras) ==
    IF Len(paras) = 0 THEN <<>>
    ELSE (IF Len(Strip(Head(paras))) > 0 THEN <<FormatPara(Head(paras))>> ELSE <<>>)
           \o HtmlParts(Tail(paras))

\* structure_legal_document with both emptiness guards lost: an empty line
\* appends current_para even when it is empty (line 93), and html_parts takes
\* every paragraph (line 111)
RECURSIVE UnguardedFrom(_, _, _)
UnguardedFrom(lines, paras, cur) ==
    IF Len(lines) = 0
    THEN IF Len(cur) > 0 THEN Append(paras, FormatPara(Strip(cur))) ELSE paras
    ELSE LET line == Strip(Head(lines)) IN
         IF Len(line) = 0
         THEN UnguardedFrom(Tail(lines), Append(paras, FormatPara(Strip(cur))), <<>>)
         ELSE UnguardedFrom(Tail(lines), paras,
                            IF Len(cur) > 0 THEN cur \o <<" ">> \o line ELSE line)

structure_legal_document_unguarded(c) == UnguardedFrom(Split(c, "\n"), <<>>, <<>>)

structure_legal_document(c) == HtmlParts(AssembleParagraphs(c))

-----------------------------------------------------------------------------
(* advanced_rtf_processor.create_clean_legal_html: the contents of the <p>  *)
(* elements of the page; the rest of the template holds no <p> element.    *)

COMPANY_NAME == <<"<", "s", "t", "r", "o", "n", "g", ">", "L", "O", "T", "U", "S", "L", "I", "O", "N", " ", "V", "E", "N", "T", "U", "R", "E", " ", "L", "L", "P", "<", "/", "s", "t", "r", "o", "n", "g", ">">>
COMPANY_INFO == <<"<", "e", "m", ">", "(", "A", " ", "L", "i", "m", "i", "t", "e", "d", " ", "L", "i", "a", "b", "i", "l", "i", "t", "y", " ", "P", "a", "r", "t", "n", "e", "r", "s", "h", "i", "p", " ", "i", "n", "c", "o", "r", "p", "o", "r", "a", "t", "e", "d", " ", "u", "n", "d", "e", "r", " ", "t", "h", "e", " ", "L", "i", "m", "i", "t", "e", "d", " ", "L", "i", "a", "b", "i", "l", "i", "t", "y", " ", "P", "a", "r", "t", "n", "e", "r", "s", "h", "i", "p", " ", "A", "c", "t", ",", " ", "2", "0", "0", "8", ")", "<", "/", "e", "m", ">">>

RECURSIVE NonBlank(_)
NonBlank(paras) ==
    IF Len(paras) = 0 THEN <<>>
    ELSE (IF Len(Strip(Head(paras))) > 0 THEN <<Head(paras)>> ELSE <<>>)
           \o NonBlank(Tail(paras))

create_clean_legal_html(paras) == <<COMPANY_NAME, COMPANY_INFO>> \o NonBlank(paras)

-----------------------------------------------------------------------------
(* extract_rtf_content.extract_rtf_text *)

BOLD_MARK == <<"*", "*", "B", "O", "L", "D", "*", "*">>
NORMAL_MARK == <<"*", "*", "N", "O", "R", "M", "A", "L", "*", "*">>
ITALIC_MARK == <<"*", "*", "I", "T", "A", "L", "I", "C", "*", "*">>

\* re.sub(open([^*]*)close, pre\1post, s): lines 75-76
RECURSIVE SubWrapFrom(_, _, _, _, _, _)

WrapPattern(open, close) == <<Lit(open), Rep(NotIn({"*"}), 0), Lit(close)>>

\* the match runs from k to e-1
SubWrapAt(s, i, k, e, open, close, pre, post) ==
    IF k > Len(s) THEN SubSeq(s, i, Len(s))
    ELSE SubSeq(s, i, k - 1) \o pre
           \o SubSeq(s, k + Len(open), e - Len(close) - 1) \o post
           \o SubWrapFrom(s, e, open, close, pre, post)

SubWrapStart(s, i, k, open, close, pre, post) ==
    SubWrapAt(s, i, k, MatchFrom(s, k, WrapPattern(open, close), 1),
              open, close, pre, post)

SubWrapFrom(s, i, open, close, pre, post) ==
    SubWrapStart(s, i, FirstMatch(s, i, WrapPattern(open, close)),
                 open, close, pre, post)

\* lines 20-33: control group declarations, tables, page layout
ExtractHeader(t0) ==
    LET t1 == ReSub(<<Lit(<<"\\", "r", "t", "f", "1">>), Rep(NotIn({"}"}), 0), Lit(<<"}">>)>>, <<>>, t0)
        t2 == ReSub(<<Lit(<<"\\", "c", "o", "c", "o", "a", "r", "t", "f">>), D1>>, <<>>, t1)
        t3 == ReSub(<<Lit(<<"\\", "c", "o", "c", "o", "a", "t", "e", "x", "t", "s", "c", "a", "l", "i", "n", "g">>), D1, Lit(<<"\\", "c", "o", "c", "o", "a", "p", "l", "a", "t", "f", "o", "r", "m">>), D1>>,
                    <<>>, t2)
        t4 == ReSub(<<Lit(<<"\\", "f", "o", "n", "t", "t", "b", "l">>), Rep(NotIn({"}"}), 0), Rep(In({"}"}), 1)>>,
                    <<>>, t3)
        t5 == ReSub(<<Lit(<<"\\", "c", "o", "l", "o", "r", "t", "b", "l">>), Rep(NotIn({"}"}), 0), Rep(In({"}"}), 1)>>,
                    <<>>, t4)
        t6 == ReSub(<<Lit(<<"\\", "e", "x", "p", "a", "n", "d", "e", "d", "c", "o", "l", "o", "r", "t", "b", "l">>), Rep(NotIn({"}"}), 0),
                      Rep(In({"}"}), 1)>>, <<>>, t5)
    IN  CleanStep2(t6)

\* lines 36-37.  \\pardeftab\d+[^\\]* : digits, then up to the next backslash
ExtractParagraphs(t0) ==
    LET t1 == ReSub(<<Lit(<<"\\", "p", "a", "r", "d">>), Rep(NotIn({"\\"}), 0)>>, <<"\n", "\n">>, t0)
        t2 == ReSub(<<Lit(<<"\\", "p", "a", "r", "d", "e", "f", "t", "a", "b">>), D1, Rep(NotIn({"\\"}), 0)>>, <<>>, t1)
    IN  t2

\* lines 40-44
ExtractFonts(t0) ==
    LET t1 == ReSub(<<Lit(<<"\\", "f", "0", "\\", "b", "\\", "f", "s">>), D1>>, BOLD_MARK, t0)
        t2 == ReSub(<<Lit(<<"\\", "f", "0", "\\", "b">>)>>, BOLD_MARK, t1)
        t3 == ReSub(<<Lit(<<"\\", "f", "1", "\\", "b", "0">>)>>, NORMAL_MARK, t2)
        t4 == ReSub(<<Lit(<<"\\", "f", "2", "\\", "i">>)>>, ITALIC_MARK, t3)
        t5 == ReSub(<<Lit(<<"\\", "f", "1", "\\", "i", "0">>)>>, NORMAL_MARK, t4)
    IN  t5

\* lines 57-67: special characters, line breaks, white space, residual
\* controls.  Line 59 has already turned every backslash into a newline when
\* the pattern of line 66 is applied.
ExtractResidual(t0) ==
    LET t1 == CleanStep6(t0)
        t2 == Replace(t1, <<"\\">>, <<"\n">>)
        t3 == ReSub(<<Rep(In({"\n"}), 3)>>, <<"\n", "\n">>, t2)
        t4 == ReSub(<<Rep(In({" "}), 2)>>, <<" ">>, t3)
        t5 == ReSub(<<Lit(<<"\\">>), Rep(In(Alpha), 1), Rep(In(Digit), 0)>>, <<>>, t4)
        t6 == ReSub(<<Rep(In({"{", "}"}), 1)>>, <<>>, t5)
    IN  t6

\* lines 72-82: one line of the loop
ExtractLine(raw) ==
    LET line == Strip(raw) IN
    IF Len(line) > 0 /\ ~StartsWith(line, <<"{">>) /\ ~StartsWith(line, <<"}">>)
    THEN LET l1 == SubWrapFrom(line, 1, BOLD_MARK, NORMAL_MARK,
                               STRONG_OPEN, STRONG_CLOSE)
             l2 == SubWrapFrom(l1, 1, ITALIC_MARK, NORMAL_MARK, EM_OPEN, EM_CLOSE)
             l3 == ReSub(<<Lit(BOLD_MARK)>>, STRONG_OPEN, l2)
             l4 == ReSub(<<Lit(NORMAL_MARK)>>, STRONG_CLOSE, l3)
             l5 == ReSub(<<Lit(ITALIC_MARK)>>, EM_OPEN, l4)
         IN  IF Len(l5) > 0 THEN <<l5>> ELSE <<>>
    ELSE <<>>

RECURSIVE ExtractLines(_)
ExtractLines(raws) ==
    IF Len(raws) = 0 THEN <<>>
    ELSE ExtractLine(Head(raws)) \o ExtractLines(Tail(raws))

extract_rtf_text(t0) ==
    LET t == ExtractResidual(CleanStep5(ExtractFonts(ExtractParagraphs(
                 ExtractHeader(t0)))))
    IN  Join(ExtractLines(Split(t, "\n")), <<"\n">>)

-----------------------------------------------------------------------------
(* extract_rtf_content.create_legal_html *)

\* lines 92-108: as structure_legal_document's loop, but current_para is
\* appended without strip()
RECURSIVE LegalParasFrom(_, _, _)
LegalParasFrom(lines, paras, cur) ==
    IF Len(lines) = 0
    THEN IF Len(cur) > 0 THEN Append(paras, cur) ELSE paras
    ELSE LET line == Strip(Head(lines)) IN
         IF Len(line) = 0
         THEN IF Len(cur) > 0
              THEN LegalParasFrom(Tail(lines), Append(paras, cur), <<>>)
              ELSE LegalParasFrom(Tail(lines), paras, cur)
         ELSE LegalParasFrom(Tail(lines), paras,
                             IF Len(cur) > 0 THEN cur \o <<" ">> \o line ELSE line)

\* html.escape(para, quote=False), then the formatting tags restored
\* (lines 178-180)
EscapePara(p0) ==
    LET e1 == Replace(p0, <<"&">>, <<"&", "a", "m", "p", ";">>)
        e2 == Replace(e1, <<"<">>, <<"&", "l", "t", ";">>)
        e3 == Replace(e2, <<">">>, <<"&", "g", "t", ";">>)
        r1 == Replace(e3, <<"&", "l", "t", ";", "s", "t", "r", "o", "n", "g", "&", "g", "t", ";">>, STRONG_OPEN)
        r2 == Replace(r1, <<"&", "l", "t", ";", "/", "s", "t", "r", "o", "n", "g", "&", "g", "t", ";">>, STRONG_CLOSE)
        r3 == Replace(r2, <<"&", "l", "t", ";", "e", "m", "&", "g", "t", ";">>, EM_OPEN)
        r4 == Replace(r3, <<"&", "l", "t", ";", "/", "e", "m", "&", "g", "t", ";">>, EM_CLOSE)
    IN  r4

RECURSIVE EscapedParas(_)
EscapedParas(paras) ==
    IF Len(paras) = 0 THEN <<>>
    ELSE (IF Len(Strip(Head(paras))) > 0 THEN <<EscapePara(Head(paras))>> ELSE <<>>)
           \o EscapedParas(Tail(paras))

\* the contents of the <p> elements of the page (lines 175-181)
create_legal_html(c) ==
    EscapedParas(LegalParasFrom(Split(c, "\n"), <<>>, <<>>))

-----------------------------------------------------------------------------
(* Inputs: every concatenation of at most MaxFrags fragments, and two      *)
(* whole documents.                                                        *)

MaxFrags == 3

PARD == <<"\\", "p", "a", "r", "d">>
RUPEE_ESC == <<"\\", "u", "c", "0", "\\", "u", "8", "3", "7", "7">>
HEX_ESC == <<"\\", "'", "e", "5">>
UNI_ESC == <<"\\", "u", "9", "6", "9">>

Frags ==
    { PARD, <<"\\", "f", "0", "\\", "b">>, <<"\\", "f", "1", "\\", "b", "0">>, <<"\\", "f", "2", "\\", "i">>, <<" ", "a", "b", "c">>, <<"\\", "f", "s", "2", "4", " ", "x", "y", "z">>, <<"\n">>,
      RUPEE_ESC, <<"{", "\\", "r", "t", "f", "1", "\\", "a", "n", "s", "i">>, <<"}">>, <<"{", "\\", "f", "o", "n", "t", "t", "b", "l", "\\", "f", "0", " ", "H", ";", "}">>, HEX_ESC, UNI_ESC }

RECURSIVE Concats(_)
Concats(n) ==
    IF n = 0 THEN {<<>>}
    ELSE LET P == Concats(n - 1) IN P \cup {p \o f : p \in P, f \in Frags}

ScenarioWhereas ==
    <<"\\", "p", "a", "r", "d", "\\", "f", "0", "\\", "b", "\\", "f", "s", "2", "4", " ", "W", "H", "E", "R", "E", "A", "S", " ", "t", "h", "e", " ", "p", "a", "r", "t", "i", "e", "s", " ", "a", "g", "r", "e", "e", "\\", "f", "1", "\\", "b", "0", " ", "a", "s", " ", "f", "o", "l", "l", "o", "w", "s", ".", "\\", "p", "a", "r", "d", " ", "n", "e", "x", "t", " ", "p", "a", "r", "a", "g", "r", "a", "p", "h", ".">>

ScenarioClean == <<"a", "b", "c", "\n", "\n", "d", "e", "f">>

\* two lines, a paragraph reset, two more lines
ScenarioRuns == <<" ", "a", "b", "c", "\n", " ", "a", "b", "c", "\\", "p", "a", "r", "d", "\\", "f", "s", "2", "4", " ", "x", "y", "z", "\n", " ", "a", "b", "c">>

Inputs == Concats(MaxFrags) \cup {ScenarioWhereas, ScenarioClean, ScenarioRuns}

-----------------------------------------------------------------------------
(* The two recovery pipelines, one action per function of the source *)

envVars == <<driver, idx, fs, rd, written, reported, crashed>>

CleanRtfContent ==
    /\ driver = "advanced" /\ pc = "read"
    /\ content' = clean_rtf_content(rtf_content)
    /\ pc' = "cleaned"
    /\ UNCHANGED <<rtf_content, paragraphs, html_paras, envVars>>

StructureLegalDocument ==
    /\ driver = "advanced" /\ pc = "cleaned"
    /\ paragraphs' = structure_legal_document(content)
    /\ pc' = "structured"
    /\ UNCHANGED <<rtf_content, content, html_paras, envVars>>

CreateCleanLegalHtml ==
    /\ driver = "advanced" /\ pc = "structured"
    /\ html_paras' = create_clean_legal_html(paragraphs)
    /\ pc' = "rendered"
    /\ UNCHANGED <<rtf_content, content, paragraphs, envVars>>

ExtractRtfText ==
    /\ driver = "extract" /\ pc = "read"
    /\ content' = extract_rtf_text(rtf_content)
    /\ pc' = "extracted"
    /\ UNCHANGED <<rtf_content, paragraphs, html_paras, envVars>>

CreateLegalHtml ==
    /\ driver = "extract" /\ pc = "extracted"
    /\ paragraphs' = LegalParasFrom(Split(content, "\n"), <<>>, <<>>)
    /\ html_paras' = create_legal_html(content)
    /\ pc' = "rendered"
    /\ UNCHANGED <<rtf_content, content, envVars>>

NoEnv ==
    /\ idx = 0 /\ fs = <<>> /\ rd = <<>> /\ written = <<>> /\ reported = <<>>
    /\ crashed = FALSE

\* advanced_rtf_processor: clean, structure, render one input
Init ==
    /\ driver = "advanced" /\ pc = "read"
    /\ rtf_content \in Inputs
    /\ content = <<>> /\ paragraphs = <<>> /\ html_paras = <<>>
    /\ NoEnv

Next == CleanRtfContent \/ StructureLegalDocument \/ CreateCleanLegalHtml

Spec == Init /\ [][Next]_vars

\* extract_rtf_content: extract, render one input
InitExtract ==
    /\ driver = "extract" /\ pc = "read"
    /\ rtf_content \in Inputs
    /\ content = <<>> /\ paragraphs = <<>> /\ html_paras = <<>>
    /\ NoEnv

NextExtract == ExtractRtfText \/ CreateLegalHtml

SpecExtract == InitExtract /\ [][NextExtract]_vars

-----------------------------------------------------------------------------
(* The batch drivers: main() of both files over files_to_process.  The     *)
(* environment fixes which files can be read (rd) and written (fs).        *)

NumFiles == 3

Files == 1..NumFiles

FileText(i) == <<ScenarioWhereas, ScenarioClean, <<" ", "a", "b", "c", "\\", "p", "a", "r", "d", "\\", "f", "s", "2", "4", " ", "x", "y", "z">>>>[i]

\* the for loop moves to the next file, or ends
Advance ==
    /\ idx' = idx + 1
    /\ pc' = IF idx = NumFiles THEN "done" ELSE "open"

\* an exception raised in the loop body: caught per file by advanced main
\* (lines 273-274), uncaught in extract main (lines 211-228)
Raise ==
    IF driver = "advanced"
    THEN /\ reported' = [reported EXCEPT ![idx] = TRUE]
         /\ Advance
         /\ UNCHANGED crashed
    ELSE /\ crashed' = TRUE
         /\ pc' = "crashed"
         /\ UNCHANGED <<reported, idx>>

ReadFile ==
    /\ pc = "open" /\ rd[idx]
    /\ rtf_content' = FileText(idx)
    /\ pc' = "read"
    /\ UNCHANGED <<content, paragraphs, html_paras, driver, idx, fs, rd,
                   written, reported, crashed>>

ReadFails ==
    /\ pc = "open" /\ ~rd[idx]
    /\ Raise
    /\ UNCHANGED <<rtf_content, content, paragraphs, html_paras, driver, fs, rd,
                   written>>

WriteFile ==
    /\ pc = "rendered" /\ fs[idx]
    /\ written' = [written EXCEPT ![idx] = TRUE]
    /\ Advance
    /\ UNCHANGED <<rtf_content, content, paragraphs, html_paras, driver, fs, rd,
                   reported, crashed>>

WriteFails ==
    /\ pc = "rendered" /\ ~fs[idx]
    /\ Raise
    /\ UNCHANGED <<rtf_content, content, paragraphs, html_paras, driver, fs, rd,
                   written>>

InitBatch ==
    /\ driver \in {"advanced", "extract"}
    /\ pc = "open" /\ idx = 1
    /\ rd \in [Files -> BOOLEAN] /\ fs \in [Files -> BOOLEAN]
    /\ written = [f \in Files |-> FALSE]
    /\ reported = [f \in Files |-> FALSE]
    /\ crashed = FALSE
    /\ rtf_content = <<>> /\ content = <<>> /\ paragraphs = <<>>
    /\ html_paras = <<>>

NextBatch ==
    \/ ReadFile \/ ReadFails
    \/ CleanRtfContent \/ StructureLegalDocument \/ CreateCleanLegalHtml
    \/ ExtractRtfText \/ CreateLegalHtml
    \/ WriteFile \/ WriteFails

SpecBatch == InitBatch /\ [][NextBatch]_vars

-----------------------------------------------------------------------------
(* What the claims compare the output with: the visible text of an input,  *)
(* by the meaning of the markup and not by the code's patterns.            *)

IsVisible(c) == c \notin Space

\* the characters of s that are not white space, in order
NonWs(s) == SelectSeq(s, IsVisible)

HasSub(s, sub) == \E k \in 1..Len(s) : HasAt(s, k, sub)

\* s without the <strong>/<em> markup
StripTags(s) ==
    Replace(Replace(Replace(Replace(s, STRONG_OPEN, <<>>), STRONG_CLOSE, <<>>),
                    EM_OPEN, <<>>), EM_CLOSE, <<>>)

\* the input with its preamble groups, control words and braces removed, and
\* the two table escapes replaced by their characters
VisibleText(s) ==
    LET g == <<Rep(NotIn({"}"}), 0), Lit(<<"}">>)>>
        v1 == ReSub(<<Lit(<<"{", "\\", "f", "o", "n", "t", "t", "b", "l">>)>> \o g, <<>>, s)
        v2 == ReSub(<<Lit(<<"{", "\\", "c", "o", "l", "o", "r", "t", "b", "l">>)>> \o g, <<>>, v1)
        v3 == ReSub(<<Lit(<<"{", "\\", "*", "\\", "e", "x", "p", "a", "n", "d", "e", "d", "c", "o", "l", "o", "r", "t", "b", "l">>)>> \o g, <<>>, v2)
        v4 == CleanStep6(v3)
        v5 == ReSub(<<Lit(<<"\\">>), Rep(In(Alpha), 1), Rep(In(Digit), 0)>>, <<" ">>, v4)
    IN  Replace(Replace(Replace(v5, <<"{">>, <<>>), <<"}">>, <<>>), <<"\\">>, <<" ">>)

\* no control marker and no line break
IsPlainText(s) == \A k \in 1..Len(s) : s[k] \notin {"\\", "{", "}", "\n"}

-----------------------------------------------------------------------------
\* C1: content preservation.  The paragraphs of
\* structure_legal_document(clean_rtf_content(input)), markup removed and
\* concatenated in order, have exactly the visible characters of the input.
C1_ContentPreservation ==
    pc = "structured" =>
        NonWs(StripTags(Join(paragraphs, <<" ">>))) = NonWs(VisibleText(rtf_content))

\* C2: the WHEREAS scenario recovers to exactly the two paragraphs of the
\* specification, and plain text directly after a \pard marker is kept as the
\* new paragraph.
C2_WhereasScenario ==
    pc = "structured" =>
        /\ (rtf_content = ScenarioWhereas) =>
               (paragraphs = <<<<"<", "s", "t", "r", "o", "n", "g", ">", "W", "H", "E", "R", "E", "A", "S", " ", "t", "h", "e", " ", "p", "a", "r", "t", "i", "e", "s", " ", "a", "g", "r", "e", "e", "<", "/", "s", "t", "r", "o", "n", "g", ">", " ", "a", "s", " ", "f", "o", "l", "l", "o", "w", "s", ".">>,
                               <<"n", "e", "x", "t", " ", "p", "a", "r", "a", "g", "r", "a", "p", "h", ".">>>>)
        /\ \A t \in Frags :
               (rtf_content = PARD \o t /\ IsPlainText(t) /\ NonWs(t) # <<>>) =>
                   (/\ Len(paragraphs) = 1
                    /\ NonWs(paragraphs[1]) = NonWs(t))

\* the kind of tag that starts at position k of s, "" if none
TagAt(s, k) ==
    IF HasAt(s, k, STRONG_OPEN) THEN "strong"
    ELSE IF HasAt(s, k, STRONG_CLOSE) THEN "/strong"
    ELSE IF HasAt(s, k, EM_OPEN) THEN "em"
    ELSE IF HasAt(s, k, EM_CLOSE) THEN "/em"
    ELSE ""

CloseOf(t) == IF t = "strong" THEN "/strong" ELSE "/em"

TagPositions(s) == {k \in 1..Len(s) : TagAt(s, k) # ""}

\* every opening tag is followed by its own closing tag before any other tag,
\* every closing tag closes the tag just opened, nothing stays open
Balanced(s) ==
    LET P == TagPositions(s)
        Prev(k) == {j \in P : j < k /\ \A h \in P : h < k => h <= j}
        Next1(k) == {j \in P : j > k /\ \A h \in P : h > k => j <= h}
    IN  \A k \in P :
            IF TagAt(s, k) \in {"strong", "em"}
            THEN /\ \A j \in Prev(k) : TagAt(s, j) \in {"/strong", "/em"}
                 /\ \E j \in Next1(k) : TagAt(s, j) = CloseOf(TagAt(s, k))
            ELSE \E j \in Prev(k) :
                     /\ TagAt(s, j) \in {"strong", "em"}
                     /\ CloseOf(TagAt(s, j)) = TagAt(s, k)

\* C3: emphasis balance.  In every returned paragraph each <strong>/<em> has
\* exactly one matching closing tag after it and the two kinds are never open
\* together.
C3_EmphasisBalance ==
    pc = "structured" => \A i \in DOMAIN paragraphs : Balanced(paragraphs[i])

\* C4: paragraph non-emptiness.  No returned paragraph is empty or only white
\* space, and no <p> element of the page is.
C4_ParagraphNonEmpty ==
    /\ pc \in {"structured", "rendered"} =>
           \A i \in DOMAIN paragraphs : NonWs(paragraphs[i]) # <<>>
    /\ pc = "rendered" =>
           \A i \in DOMAIN html_paras : NonWs(html_paras[i]) # <<>>

\* two consecutive \pard markers in an input that yields a paragraph
C4_Witness ==
    /\ pc = "rendered"
    /\ HasSub(rtf_content, PARD \o PARD)
    /\ Len(paragraphs) >= 1
    /\ Len(html_paras) = Len(paragraphs) + 2

\* number of groups of non-blank lines of s
LineGroups(s) ==
    LET L == Split(s, "\n")
        Text(i) == NonWs(L[i]) # <<>>
    IN  Cardinality({i \in DOMAIN L : Text(i) /\ (i = 1 \/ ~Text(i - 1))})

\* no backslash and no brace
IsCleanDocument(s) == \A k \in 1..Len(s) : s[k] \notin {"\\", "{", "}"}

\* C5: clean input.  An input without control markers recovers to one
\* paragraph per group of non-empty lines.
C5_CleanInput ==
    pc = "structured" /\ IsCleanDocument(rtf_content) =>
        Len(paragraphs) = LineGroups(rtf_content)

\* the environment makes file f fail
Fails(f) == ~rd[f] \/ ~fs[f]

\* file f was handled: written, or its failure reported
Processed(f) == IF Fails(f) THEN reported[f] ELSE written[f]

\* C6: fail-independent batch.  When main() of either driver has ended, every
\* failed file was reported and every later file was still processed.
C6_FailIndependentBatch ==
    pc \in {"done", "crashed"} =>
        \A f \in Files :
            Fails(f) => /\ reported[f]
                        /\ \A g \in Files : g > f => Processed(g)

\* declarations that precede the body: the format declaration, a font table
Preambles ==
    {<<"{", "\\", "r", "t", "f", "1", "\\", "a", "n", "s", "i">>, <<"{", "\\", "f", "o", "n", "t", "t", "b", "l", "\\", "f", "0", " ", "H", ";", "}">>, <<"{", "\\", "r", "t", "f", "1", "\\", "a", "n", "s", "i", "{", "\\", "f", "o", "n", "t", "t", "b", "l", "\\", "f", "0", " ", "H", ";", "}">>}

\* C7: preamble elimination.  For an input that is a preamble followed by
\* plain body text, clean_rtf_content returns the body text and nothing else.
C7_PreambleElimination ==
    pc = "cleaned" =>
        \A pre \in Preambles :
            LET body == SubSeq(rtf_content, Len(pre) + 1, Len(rtf_content)) IN
            (StartsWith(rtf_content, pre) /\ ~HasSub(body, <<"\\">>))
                => NonWs(content) = NonWs(VisibleText(body))

\* C8: currency escape.  Every occurrence of the rupee escape is recovered as
\* the rupee sign between the visible text before it and the visible text
\* after it.
C8_CurrencyEscape ==
    pc = "cleaned" =>
        \A k \in 1..Len(rtf_content) :
            HasAt(rtf_content, k, RUPEE_ESC) =>
                NonWs(StripTags(content))
                  = NonWs(VisibleText(SubSeq(rtf_content, 1, k - 1))) \o <<RUPEE>>
                      \o NonWs(VisibleText(SubSeq(rtf_content, k + Len(RUPEE_ESC),
                                                  Len(rtf_content))))

\* the positions where a run delimited by \pard markers starts
RunStarts(s) == {1} \cup {k + Len(PARD) : k \in {j \in 1..Len(s) : HasAt(s, j, PARD)}}

\* the run that starts at a: up to the next \pard marker
RunAt(s, a) == SubSeq(s, a, FirstMatch(s, a, <<Lit(PARD)>>) - 1)

\* number of non-empty text runs delimited by \pard markers
TextRuns(s) ==
    Cardinality({a \in RunStarts(s) : NonWs(VisibleText(RunAt(s, a))) # <<>>})

NoBraces(s) == \A k \in 1..Len(s) : s[k] \notin {"{", "}"}

\* C9: paragraph breaks survive extract_rtf_text and create_legal_html: the
\* page has one <p> element per non-empty text run delimited by \pard.
C9_ParagraphBreaksKept ==
    (pc = "rendered" /\ NoBraces(rtf_content) /\ TextRuns(rtf_content) >= 2) =>
        Len(html_paras) = TextRuns(rtf_content)

\* the text after the specific substitutions of lines 20-58
BeforeResidual(s) ==
    CleanStep6(CleanStep5(ExtractFonts(ExtractParagraphs(ExtractHeader(s)))))

\* the control keywords (letters and numeric parameter) still in s
ControlWords(s) ==
    {SubSeq(s, k + 1, SpanEnd(s, SpanEnd(s, k + 1, In(Alpha)), In(Digit)) - 1) :
        k \in {j \in 1..(Len(s) - 1) : s[j] = "\\" /\ s[j + 1] \in Alpha}}

\* C10: residual control stripping.  No control keyword left after the
\* specific substitutions appears in the text extract_rtf_text returns.
C10_ResidualControlsStripped ==
    pc = "extracted" =>
        \A w \in ControlWords(BeforeResidual(rtf_content)) : ~HasSub(content, w)


HexDigit == Digit \cup {"a", "b", "c", "d", "e", "f", "A", "B", "C", "D", "E", "F"}

\* a hexadecimal escape \'hh starts at position k of s
HexEscapeAt(s, k) ==
    /\ k + 3 <= Len(s)
    /\ s[k] = "\\" /\ s[k + 1] = "'"
    /\ s[k + 2] \in HexDigit /\ s[k + 3] \in HexDigit

\* a numeric escape \uNNNN starts at position k of s
UniEscapeAt(s, k) ==
    /\ k + 2 <= Len(s)
    /\ s[k] = "\\" /\ s[k + 1] = "u" /\ s[k + 2] \in Digit

\* last digit of the code of the numeric escape at k
UniEscapeEnd(s, k) ==
    CHOOSE e \in (k + 2)..Len(s) :
        /\ \A j \in (k + 2)..e : s[j] \in Digit
        /\ e = Len(s) \/ s[e + 1] \notin Digit

\* the codes of the fixed table (lines 46-47)
TableCodes == {<<"8", "3", "7", "7">>, <<"8", "2", "3", "2">>}

\* what the escapes of s that are not in the table carry: 'hh of a
\* hexadecimal escape, the digits of a numeric escape with another code
UnknownEscapePayloads(s) ==
    {SubSeq(s, k + 1, k + 3) : k \in {j \in 1..Len(s) : HexEscapeAt(s, j)}}
      \cup ({SubSeq(s, k + 2, UniEscapeEnd(s, k)) :
                 k \in {j \in 1..Len(s) : UniEscapeAt(s, j)}} \ TableCodes)

\* C11: special-character substitution.  An escape that is not in the fixed
\* table is dropped: nothing of it appears as literal text in the output of
\* clean_rtf_content.
C11_UnknownEscapesDropped ==
    pc = "cleaned" =>
        \A w \in UnknownEscapePayloads(rtf_content) : ~HasSub(content, w)

\* the lines of s where a run of non-empty lines starts
RunStartLines(L) ==
    {i \in DOMAIN L : L[i] # <<>> /\ (i = 1 \/ L[i - 1] = <<>>)}

\* the last line of the run of non-empty lines that starts at line a
RunLastLine(L, a) ==
    CHOOSE b \in a..Len(L) :
        /\ \A j \in a..b : L[j] # <<>>
        /\ b = Len(L) \/ L[b + 1] = <<>>

\* the k-th element of a set of line numbers, in increasing order
NthLine(S, k) == CHOOSE a \in S : Cardinality({x \in S : x < a}) = k - 1

\* the maximal runs of consecutive non-empty lines of s, in input order, each
\* joined with single spaces
MaximalRuns(s) ==
    LET L == Split(s, "\n")
        S == RunStartLines(L)
    IN  [k \in 1..Cardinality(S) |->
            Join(SubSeq(L, NthLine(S, k), RunLastLine(L, NthLine(S, k))), <<" ">>)]

\* C12: paragraph assembly.  The paragraphs assembled by
\* structure_legal_document, before keyword emphasis, are the maximal runs of
\* consecutive non-empty lines of its input, each joined with single spaces,
\* in input order; what it returns is these runs with the emphasis applied.
C12_ParagraphAssembly ==
    pc \in {"structured", "rendered"} =>
        /\ AssembleParagraphs(content) = MaximalRuns(content)
        /\ paragraphs = HtmlParts(MaximalRuns(content))

\* a document of two paragraphs, one of them joined from two lines, has been
\* structured
C12_Witness ==
    /\ pc = "structured"
    /\ Len(paragraphs) = 2
    /\ \E i \in 1..(Len(content) - 1) :
           content[i] = "\n" /\ content[i + 1] = "\n"
    /\ Cardinality({i \in 1..Len(content) : content[i] = "\n"}) >= 3

=============================================================================
